---- MODULE Spec2Model ----
(***************************************************************************)
(* Model of packages/web3-eth/src/utils/watch_transaction_for_confirmations *)
(* One call of watchTransactionForConfirmations: validation, dispatch on   *)
(* provider.supportsSubscriptions(), the polling observer (setInterval +   *)
(* getBlockByNumber) and the subscription observer (newHeads data / error  *)
(* handlers, unsubscribe, fallback to polling).                            *)
(***************************************************************************)
EXTENDS Integers, Sequences, FiniteSets, Bags, TLC

(* ------------------------------ bounds --------------------------------- *)
MaxT == 3
MaxReceiptBlock == 2
MaxInflight == 2
MaxDeliveries == 2
MaxErrors == 2
\* Blocks the chain produces beyond the receipt's block, and the newHeads
\* heights delivered: enough for every threshold to be reached and passed.
MaxAhead == MaxT
MaxHeaderHeight == MaxReceiptBlock + MaxT - 1

(* ------------------------------ state ---------------------------------- *)
VARIABLES
    pc,            \* "start", "thrown" or "returned" for the call; "exited" once
                   \* the host has ended the process
    transactionReceipt,   \* the receipt argument
    transactionConfirmationBlocks, \* web3Context.transactionConfirmationBlocks
    supportsSubscriptions,         \* result of provider.supportsSubscriptions()
    thrown,        \* error thrown synchronously to the caller
    unhandled,     \* errors raised inside detached asynchronous contexts
    chainHead,     \* highest block the block source can return with a hash
    pollers,       \* one record per call of watchByPolling
    subState,      \* life cycle of the newHeads subscription
    dataUnsub,     \* unsubscribe() calls issued by the data handler
    errUnsub,      \* unsubscribe() calls issued by the error handler
    pendingData,   \* data-handler unsubscribe() calls not yet acknowledged
    pendingErr,    \* error-handler unsubscribe() calls not yet acknowledged
    delivered,     \* number of headers handed to the data handler
    lastHeader,    \* the header most recently handed to the data handler
    errors,        \* number of error events handed to the error handler
    emitted        \* 'confirmation' events emitted on transactionWeb3PromiEvent

vars == <<pc, transactionReceipt, transactionConfirmationBlocks,
          supportsSubscriptions, thrown, unhandled, chainHead, pollers,
          subState, dataUnsub, errUnsub, pendingData, pendingErr, delivered,
          lastHeader, errors, emitted>>

(* ------------------------------ inputs --------------------------------- *)
\* A block number as JavaScript sees it: absent (undefined/null), a number
\* or bigint, or a hex string such as '0x0' (type Numbers).
BlockNumberValues ==
    {[kind |-> "absent", val |-> 0]}
      \cup {[kind |-> "number", val |-> n] : n \in {0, MaxReceiptBlock}}
      \cup {[kind |-> "hex", val |-> 0]}

NullReceipt ==
    [present |-> FALSE, hasBlockHash |-> FALSE,
     blockNumber |-> [kind |-> "absent", val |-> 0]]

Receipts ==
    {NullReceipt}
      \cup {[present |-> TRUE, hasBlockHash |-> FALSE,
             blockNumber |-> [kind |-> "number", val |-> MaxReceiptBlock]]}
      \cup {[present |-> TRUE, hasBlockHash |-> TRUE, blockNumber |-> bn] :
               bn \in BlockNumberValues}

\* The hash of the block at height h; blocks are identified by height
\* (chain reorganisations are outside the program).
BlockHash(h) == h

\* newHeads headers: number, own hash, parent hash; or a header without number.
\* The numbers start at 0, the height of the first block of a chain.
Header(h) == [hasNumber |-> TRUE, number |-> h,
              hash |-> BlockHash(h), parentHash |-> BlockHash(h - 1)]
HeaderNoNumber == [hasNumber |-> FALSE, number |-> 0,
                   hash |-> BlockHash(1), parentHash |-> BlockHash(0)]
Headers == {Header(h) : h \in 0..MaxHeaderHeight} \cup {HeaderNoNumber}

(* --------------------------- pure helpers ------------------------------ *)
\* JavaScript truthiness of a block number: `!x` is true for undefined, 0, 0n;
\* a non-empty string ('0x0' included) is truthy.
Falsy(bn) == bn.kind = "absent" \/ (bn.kind = "number" /\ bn.val = 0)

\* BigInt(x) of a number, bigint or hex string.
BigInt(bn) == bn.val

\* isNullish(transactionReceipt)
isNullish(r) == ~r.present

\* The synchronous checks at the entry of watchTransactionForConfirmations.
\* With a nullish receipt the argument of the error constructor reads
\* transactionReceipt.blockHash, which raises a TypeError before the
\* TransactionMissingReceiptOrBlockHashError is constructed.
ValidationError(r) ==
    IF isNullish(r) THEN "TypeError"
    ELSE IF ~r.hasBlockHash THEN "TransactionMissingReceiptOrBlockHashError"
    ELSE IF Falsy(r.blockNumber) THEN "TransactionReceiptMissingBlockNumberError"
    ELSE "none"

\* Control reaches the dispatch only when no check has thrown.
ReachesDispatch_NoValidation(e) == TRUE
ReachesDispatch(e) == e = "none"

\* let confirmationNumber = 1
InitialConfirmationNumber == 1

\* The state one call of watchByPolling owns: its counter, its interval timer
\* and the getBlockByNumber requests it has outstanding (by height).
NewPoller ==
    [confirmationNumber |-> InitialConfirmationNumber, timer |-> "active",
     inflight |-> EmptyBag]

\* What getBlockByNumber(height) may resolve to: the block with its hash when
\* it has been produced, otherwise null, or a block that carries no hash yet.
BlockResults(h) ==
    IF h <= chainHead
    THEN {[exists |-> TRUE, hasHash |-> TRUE, hash |-> BlockHash(h)]}
    ELSE {[exists |-> FALSE, hasHash |-> FALSE, hash |-> 0],
          [exists |-> TRUE, hasHash |-> FALSE, hash |-> 0]}

\* nextBlock?.hash
HasHash(blk) == blk.exists /\ blk.hasHash

ConfirmationEvent(n, hash, via) ==
    [confirmationNumber |-> n, receipt |-> transactionReceipt,
     latestBlockHash |-> hash, via |-> via]

\* BigInt(data.number) - BigInt(transactionReceipt.blockNumber) + BigInt(1)
SubConfirmationNumber(hdr) == hdr.number - BigInt(transactionReceipt.blockNumber) + 1

\* latestBlockHash of a subscription event: data.parentHash
SubLatestBlockHash(hdr) == hdr.parentHash

\* The process is alive and the call has returned: callbacks can run.
Running == pc = "returned"

\* No callback of the module catches a rejection of its detached async
\* function.  What an unhandled rejection does is the host's choice: it is
\* reported and the event loop goes on, or the process ends (then no timer
\* fires and no handler runs any more).
UnhandledRejectionOutcomes == {"returned", "exited"}

(* ------------------------------- Init ---------------------------------- *)
Init ==
    /\ pc = "start"
    /\ transactionReceipt \in Receipts
    /\ transactionConfirmationBlocks \in 1..MaxT
    /\ supportsSubscriptions \in BOOLEAN
    /\ thrown = "none"
    /\ unhandled = {}
    /\ chainHead = BigInt(transactionReceipt.blockNumber)
    /\ pollers = <<>>
    /\ subState = "none"
    /\ dataUnsub = 0
    /\ errUnsub = 0
    /\ pendingData = 0
    /\ pendingErr = 0
    /\ delivered = 0
    /\ lastHeader = HeaderNoNumber
    /\ errors = 0
    /\ emitted = <<>>

(* ------------------------------ actions -------------------------------- *)
\* watchTransactionForConfirmations: validate, then dispatch once.
watchTransactionForConfirmations_Both ==
    /\ pc = "start"
    /\ LET e == ValidationError(transactionReceipt) IN
         /\ thrown' = e
         /\ pc' = IF e = "none" THEN "returned" ELSE "thrown"
         /\ IF e = "none"
            THEN /\ subState' = "scheduled"
                 /\ pollers' = Append(pollers, NewPoller)
            ELSE UNCHANGED <<subState, pollers>>
    /\ UNCHANGED <<transactionReceipt, transactionConfirmationBlocks,
                   supportsSubscriptions, unhandled, chainHead, dataUnsub,
                   errUnsub, pendingData, pendingErr, delivered, lastHeader,
                   errors, emitted>>
watchTransactionForConfirmations ==
    /\ pc = "start"
    /\ LET e == ValidationError(transactionReceipt) IN
         /\ thrown' = e
         /\ pc' = IF e = "none" THEN "returned" ELSE "thrown"
         /\ IF ReachesDispatch(e)
            THEN IF supportsSubscriptions
                 THEN /\ subState' = "scheduled"     \* watchBySubscription: setImmediate
                      /\ pollers' = pollers
                 ELSE /\ pollers' = Append(pollers, NewPoller)  \* watchByPolling
                      /\ subState' = subState
            ELSE UNCHANGED <<subState, pollers>>
    /\ UNCHANGED <<transactionReceipt, transactionConfirmationBlocks,
                   supportsSubscriptions, unhandled, chainHead, dataUnsub,
                   errUnsub, pendingData, pendingErr, delivered, lastHeader,
                   errors, emitted>>

\* The block source produces the next block.
ProduceBlock ==
    /\ pc = "returned"
    /\ chainHead < BigInt(transactionReceipt.blockNumber) + MaxAhead
    /\ chainHead' = chainHead + 1
    /\ UNCHANGED <<pc, transactionReceipt, transactionConfirmationBlocks,
                   supportsSubscriptions, thrown, unhandled, pollers, subState,
                   dataUnsub, errUnsub, pendingData, pendingErr, delivered,
                   lastHeader, errors, emitted>>

\* Number of getBlockByNumber requests outstanding over all pollers.
RECURSIVE OutstandingFrom(_)
OutstandingFrom(i) ==
    IF i > Len(pollers) THEN 0
    ELSE BagCardinality(pollers[i].inflight) + OutstandingFrom(i + 1)
Outstanding == OutstandingFrom(1)

\* One firing of the setInterval callback of poller p, up to its first await:
\* clearInterval when the counter has reached the threshold (the callback does
\* not return there), then the getBlockByNumber request for height
\* blockNumber + confirmationNumber is issued.
PollTick(p) ==
    /\ Running
    /\ p \in DOMAIN pollers
    /\ pollers[p].timer = "active"
    /\ Outstanding < MaxInflight
    /\ pollers' = [pollers EXCEPT
          ![p].timer = IF pollers[p].confirmationNumber >= transactionConfirmationBlocks
                       THEN "cleared" ELSE @,
          ![p].inflight = @ (+) SetToBag({BigInt(transactionReceipt.blockNumber)
                                            + pollers[p].confirmationNumber})]
    /\ UNCHANGED <<pc, transactionReceipt, transactionConfirmationBlocks,
                   supportsSubscriptions, thrown, unhandled, chainHead, subState,
                   dataUnsub, errUnsub, pendingData, pendingErr, delivered,
                   lastHeader, errors, emitted>>

\* The continuation of a tick after `await getBlockByNumber(...)` resolved
\* with nextBlock for the request of height h.
FetchResolve(p, h) ==
    /\ Running
    /\ p \in DOMAIN pollers
    /\ h \in BagToSet(pollers[p].inflight)
    /\ \E nextBlock \in BlockResults(h) :
         IF HasHash(nextBlock)
         THEN /\ pollers' = [pollers EXCEPT
                    ![p].confirmationNumber = @ + 1,
                    ![p].inflight = @ (-) SetToBag({h})]
              /\ emitted' = Append(emitted,
                    ConfirmationEvent(pollers[p].confirmationNumber + 1,
                                      nextBlock.hash, "polling"))
         ELSE /\ pollers' = [pollers EXCEPT ![p].inflight = @ (-) SetToBag({h})]
              /\ emitted' = emitted
    /\ UNCHANGED <<pc, transactionReceipt, transactionConfirmationBlocks,
                   supportsSubscriptions, thrown, unhandled, chainHead, subState,
                   dataUnsub, errUnsub, pendingData, pendingErr, delivered,
                   lastHeader, errors>>

\* `await getBlockByNumber(...)` rejected: the detached async function ends
\* with an unhandled rejection; the callback does not touch the interval
\* timer, and the host either goes on or ends the process.
FetchReject(p, h) ==
    /\ Running
    /\ p \in DOMAIN pollers
    /\ h \in BagToSet(pollers[p].inflight)
    /\ pollers' = [pollers EXCEPT ![p].inflight = @ (-) SetToBag({h})]
    /\ unhandled' = unhandled \cup {"RequestError"}
    /\ pc' \in UnhandledRejectionOutcomes
    /\ UNCHANGED <<transactionReceipt, transactionConfirmationBlocks,
                   supportsSubscriptions, thrown, chainHead, subState,
                   dataUnsub, errUnsub, pendingData, pendingErr, delivered,
                   lastHeader, errors, emitted>>

\* watchBySubscription: the setImmediate callback runs and issues
\* subscriptionManager.subscribe('newHeads').
SetImmediateSubscribe ==
    /\ Running
    /\ subState = "scheduled"
    /\ subState' = "subscribing"
    /\ UNCHANGED <<pc, transactionReceipt, transactionConfirmationBlocks,
                   supportsSubscriptions, thrown, unhandled, chainHead, pollers,
                   dataUnsub, errUnsub, pendingData, pendingErr, delivered,
                   lastHeader, errors, emitted>>

\* subscribe resolved: the .then callback registers the data and error handlers.
SubscribeResolve ==
    /\ Running
    /\ subState = "subscribing"
    /\ subState' = "active"
    /\ UNCHANGED <<pc, transactionReceipt, transactionConfirmationBlocks,
                   supportsSubscriptions, thrown, unhandled, chainHead, pollers,
                   dataUnsub, errUnsub, pendingData, pendingErr, delivered,
                   lastHeader, errors, emitted>>

\* subscribe rejected: the .catch callback throws a SubscriptionError inside
\* the detached promise chain, an unhandled rejection as well.
SubscribeReject_Fallback ==
    /\ Running
    /\ subState = "subscribing"
    /\ subState' = "rejected"
    /\ pollers' = Append(pollers, NewPoller)
    /\ UNCHANGED <<pc, transactionReceipt, transactionConfirmationBlocks,
                   supportsSubscriptions, thrown, unhandled, chainHead,
                   dataUnsub, errUnsub, pendingData, pendingErr, delivered,
                   lastHeader, errors, emitted>>
SubscribeReject ==
    /\ Running
    /\ subState = "subscribing"
    /\ subState' = "rejected"
    /\ unhandled' = unhandled \cup {"SubscriptionError"}
    /\ pc' \in UnhandledRejectionOutcomes
    /\ UNCHANGED <<transactionReceipt, transactionConfirmationBlocks,
                   supportsSubscriptions, thrown, chainHead, pollers,
                   dataUnsub, errUnsub, pendingData, pendingErr, delivered,
                   lastHeader, errors, emitted>>

\* !data?.number
LacksNumber_Never(data) == FALSE
LacksNumber(data) == ~data.hasNumber \/ data.number = 0

\* subscription.on('data', ...): the handler for one delivered header.  The
\* handler stays registered until an unsubscribe() has been acknowledged.
DataHandler(data) ==
    /\ Running
    /\ subState = "active"
    /\ delivered < MaxDeliveries
    /\ delivered' = delivered + 1
    /\ lastHeader' = data
    /\ IF LacksNumber(data)
       THEN UNCHANGED <<emitted, dataUnsub, pendingData>>
       ELSE LET confirmationNumber == SubConfirmationNumber(data) IN
            /\ emitted' = Append(emitted,
                  ConfirmationEvent(confirmationNumber, SubLatestBlockHash(data),
                                    "subscription"))
            /\ IF confirmationNumber >= transactionConfirmationBlocks
               THEN /\ dataUnsub' = dataUnsub + 1      \* subscription.unsubscribe()
                    /\ pendingData' = pendingData + 1
               ELSE UNCHANGED <<dataUnsub, pendingData>>
    /\ UNCHANGED <<pc, transactionReceipt, transactionConfirmationBlocks,
                   supportsSubscriptions, thrown, unhandled, chainHead, pollers,
                   subState, errUnsub, pendingErr, errors>>

\* `await subscription.unsubscribe()` of the data handler is acknowledged.
UnsubscribeAckData ==
    /\ Running
    /\ pendingData > 0
    /\ pendingData' = pendingData - 1
    /\ subState' = "unsubscribed"
    /\ UNCHANGED <<pc, transactionReceipt, transactionConfirmationBlocks,
                   supportsSubscriptions, thrown, unhandled, chainHead, pollers,
                   dataUnsub, errUnsub, pendingErr, delivered, lastHeader,
                   errors, emitted>>

\* The data handler's `await subscription.unsubscribe()` rejected: the async
\* handler ends with an unhandled rejection and the subscription is left as it
\* was.
UnsubscribeRejectData ==
    /\ Running
    /\ pendingData > 0
    /\ pendingData' = pendingData - 1
    /\ unhandled' = unhandled \cup {"UnsubscribeError"}
    /\ pc' \in UnhandledRejectionOutcomes
    /\ UNCHANGED <<transactionReceipt, transactionConfirmationBlocks,
                   supportsSubscriptions, thrown, chainHead, pollers, subState,
                   dataUnsub, errUnsub, pendingErr, delivered, lastHeader,
                   errors, emitted>>

\* subscription.on('error', ...): the handler up to `await unsubscribe()`.
ErrorHandler_PollsFirst ==
    /\ Running
    /\ subState = "active"
    /\ errors < MaxErrors
    /\ errors' = errors + 1
    /\ errUnsub' = errUnsub + 1
    /\ pendingErr' = pendingErr + 1
    /\ pollers' = Append(pollers, NewPoller)
    /\ UNCHANGED <<pc, transactionReceipt, transactionConfirmationBlocks,
                   supportsSubscriptions, thrown, unhandled, chainHead,
                   subState, dataUnsub, pendingData, delivered, lastHeader,
                   emitted>>
ErrorHandler ==
    /\ Running
    /\ subState = "active"
    /\ errors < MaxErrors
    /\ errors' = errors + 1
    /\ errUnsub' = errUnsub + 1
    /\ pendingErr' = pendingErr + 1
    /\ UNCHANGED <<pc, transactionReceipt, transactionConfirmationBlocks,
                   supportsSubscriptions, thrown, unhandled, chainHead, pollers,
                   subState, dataUnsub, pendingData, delivered, lastHeader,
                   emitted>>

\* The error handler after its unsubscribe() was acknowledged: watchByPolling.
UnsubscribeAckError ==
    /\ Running
    /\ pendingErr > 0
    /\ pendingErr' = pendingErr - 1
    /\ subState' = "unsubscribed"
    /\ pollers' = Append(pollers, NewPoller)
    /\ UNCHANGED <<pc, transactionReceipt, transactionConfirmationBlocks,
                   supportsSubscriptions, thrown, unhandled, chainHead,
                   dataUnsub, errUnsub, pendingData, delivered, lastHeader,
                   errors, emitted>>

\* The error handler's `await subscription.unsubscribe()` rejected: the async
\* handler ends there with an unhandled rejection, watchByPolling on the next
\* line is never reached.
UnsubscribeRejectError ==
    /\ Running
    /\ pendingErr > 0
    /\ pendingErr' = pendingErr - 1
    /\ unhandled' = unhandled \cup {"UnsubscribeError"}
    /\ pc' \in UnhandledRejectionOutcomes
    /\ UNCHANGED <<transactionReceipt, transactionConfirmationBlocks,
                   supportsSubscriptions, thrown, chainHead, pollers, subState,
                   dataUnsub, errUnsub, pendingData, delivered, lastHeader,
                   errors, emitted>>

PollerIds == 1..MaxErrors
RequestHeights == 0..(MaxReceiptBlock + MaxAhead + MaxInflight + 1)

Next ==
    \/ watchTransactionForConfirmations
    \/ ProduceBlock
    \/ \E p \in PollerIds : PollTick(p)
    \/ \E p \in PollerIds, h \in RequestHeights : FetchResolve(p, h)
    \/ \E p \in PollerIds, h \in RequestHeights : FetchReject(p, h)
    \/ SetImmediateSubscribe
    \/ SubscribeResolve
    \/ SubscribeReject
    \/ \E data \in Headers : DataHandler(data)
    \/ UnsubscribeAckData
    \/ UnsubscribeRejectData
    \/ ErrorHandler
    \/ UnsubscribeAckError
    \/ UnsubscribeRejectError

Spec == Init /\ [][Next]_vars

\* The scheduling the program relies on while the process is alive: the event
\* loop runs every pending callback and keeps firing an interval timer that
\* has not been cancelled, unsubscribe requests are answered (acknowledged or
\* rejected), the chain keeps producing blocks and a repeated block query
\* eventually gets an answer.  Every action is disabled once the process has ended, so none of
\* these conditions keeps a process alive that an unhandled rejection ends.
Fairness ==
    /\ WF_vars(ProduceBlock)
    /\ WF_vars(SetImmediateSubscribe)
    /\ WF_vars(UnsubscribeAckData \/ UnsubscribeRejectData)
    /\ WF_vars(UnsubscribeAckError \/ UnsubscribeRejectError)
    /\ \A p \in PollerIds : SF_vars(PollTick(p))
    /\ \A p \in PollerIds : SF_vars(\E h \in RequestHeights : FetchResolve(p, h))

\* The watches the progress properties are about: a receipt that passes the
\* entry checks on a provider that supports subscriptions.
LiveInit ==
    /\ Init
    /\ supportsSubscriptions
    /\ transactionReceipt.present
    /\ transactionReceipt.hasBlockHash
    /\ transactionReceipt.blockNumber.kind = "number"

FairSpec == LiveInit /\ [][Next]_vars /\ Fairness

(* --------------------------- observations ------------------------------ *)
ReceiptBlock == BigInt(transactionReceipt.blockNumber)

\* The confirmationNumber values of the emitted events, in emission order.
ConfirmationNumbers == [i \in 1..Len(emitted) |-> emitted[i].confirmationNumber]

\* Some polling timer has been cancelled at the threshold.
PollingThresholdReached == \E p \in DOMAIN pollers : pollers[p].timer = "cleared"

\* The data handler has handled a header at or above the threshold.
SubscriptionThresholdReached == dataUnsub >= 1

EmittedBy(via, n) ==
    \E i \in 1..Len(emitted) :
        emitted[i].via = via /\ emitted[i].confirmationNumber = n

(* ------------------------------- claims -------------------------------- *)
\* C1: a watch started by watchByPolling emits exactly T-1 events, numbered
\* 2..T in increasing order, and then stops: once its timer is cancelled the
\* emitted confirmation numbers are exactly 2, 3, ..., T.
C1_PollingEmitsTwoToThreshold ==
    (~supportsSubscriptions /\ PollingThresholdReached)
        => ConfirmationNumbers =
             [i \in 1..(transactionConfirmationBlocks - 1) |-> i + 1]

\* C2: once the threshold has been reached (timer cancelled at the threshold,
\* or a header at or above the threshold handled) no later step emits a
\* confirmation event.
C2_NoEmissionAfterThreshold ==
    [][(PollingThresholdReached \/ SubscriptionThresholdReached)
          => emitted' = emitted]_vars

\* C3: within one watch the confirmationNumber values of the emitted events
\* are non-decreasing in emission order.
C3_NonDecreasing ==
    \A i, j \in 1..Len(emitted) :
        i < j => emitted[i].confirmationNumber <= emitted[j].confirmationNumber

\* C4: every header with a height h handed to the data handler makes exactly
\* one event, with confirmationNumber h - B + 1, the original receipt and the
\* header's parent hash (not its own hash); below the threshold the handler
\* issues no unsubscribe and the subscription stays active.
C4_HeaderEmitsOneEvent ==
    [][(delivered' # delivered /\ lastHeader'.hasNumber) =>
         /\ Len(emitted') = Len(emitted) + 1
         /\ SubSeq(emitted', 1, Len(emitted)) = emitted
         /\ emitted'[Len(emitted')].confirmationNumber
               = lastHeader'.number - ReceiptBlock + 1
         /\ emitted'[Len(emitted')].receipt = transactionReceipt
         /\ emitted'[Len(emitted')].latestBlockHash = lastHeader'.parentHash
         /\ emitted'[Len(emitted')].latestBlockHash # lastHeader'.hash
         /\ (lastHeader'.number - ReceiptBlock + 1 < transactionConfirmationBlocks
               => /\ subState' = "active"
                  /\ dataUnsub' = dataUnsub
                  /\ pendingData' = pendingData)]_vars

\* C5: in the subscription path, reaching the threshold triggers exactly one
\* unsubscribe call, and nothing is emitted after it.
C5_OneUnsubscribeNoEmission ==
    [][SubscriptionThresholdReached
          => (dataUnsub' = dataUnsub /\ emitted' = emitted)]_vars

\* C6: a subscription error before the threshold makes the watch continue by
\* polling: whenever the error handler's wait for unsubscribe() ends, one
\* Polling Observer is started whose counter is 1 and whose timer is active,
\* nothing is thrown to the caller and no SubscriptionError is raised, and, as
\* long as ticks keep firing (the process is not ended by a rejected block
\* query), the confirmations 2..T are eventually emitted by polling.
C6_ErrorFallsBackToPolling ==
    /\ [][pendingErr' < pendingErr =>
            /\ Len(pollers') = Len(pollers) + 1
            /\ pollers'[Len(pollers')].confirmationNumber = 1
            /\ pollers'[Len(pollers')].timer = "active"
            /\ pollers'[Len(pollers')].inflight = EmptyBag]_vars
    /\ [](errors >= 1 => (thrown = "none" /\ "SubscriptionError" \notin unhandled))
    /\ ((errors >= 1 /\ ~SubscriptionThresholdReached)
          ~> (\/ \A n \in 2..transactionConfirmationBlocks : EmittedBy("polling", n)
              \/ \E p \in DOMAIN pollers : pc = "exited"))

\* C7: when the subscribe('newHeads') request is rejected the watch ends in a
\* fatal state with a SubscriptionError raised: no polling observer exists,
\* no handler has run, nothing is emitted, and the state is never left.
C7_RejectedSubscribeIsFatal ==
    /\ [](subState = "rejected" =>
            /\ "SubscriptionError" \in unhandled
            /\ pollers = <<>>
            /\ delivered = 0
            /\ errors = 0
            /\ dataUnsub = 0 /\ errUnsub = 0
            /\ emitted = <<>>)
    /\ [][subState = "rejected" => subState' = "rejected"]_vars

C7_Witness ==
    /\ subState = "rejected"
    /\ "SubscriptionError" \in unhandled
    /\ chainHead > ReceiptBlock

\* C8: with an absent receipt, and with a receipt whose block hash is absent,
\* the call fails with TransactionMissingReceiptOrBlockHashError.
C8_MissingReceiptOrBlockHash ==
    (pc # "start" /\ (~transactionReceipt.present \/ ~transactionReceipt.hasBlockHash))
        => thrown = "TransactionMissingReceiptOrBlockHashError"

\* A block number that is absent or denotes zero.
ZeroEquivalent(bn) == bn.kind = "absent" \/ bn.val = 0

\* C9: for a receipt with a block hash the call fails with
\* TransactionReceiptMissingBlockNumberError exactly when the block number is
\* absent or zero-equivalent, and otherwise starts a watch.
C9_MissingBlockNumber ==
    (pc # "start" /\ transactionReceipt.present /\ transactionReceipt.hasBlockHash)
        => /\ (thrown = "TransactionReceiptMissingBlockNumberError")
                <=> ZeroEquivalent(transactionReceipt.blockNumber)
           /\ ~ZeroEquivalent(transactionReceipt.blockNumber)
                => (thrown = "none" /\ (pollers # <<>> \/ subState # "none"))

\* C10: when validation fails the error is raised by the call itself and no
\* background work exists: no timer, no subscribe request, no observer
\* selected, nothing emitted.
C10_ValidationFailureStartsNothing ==
    (thrown # "none" \/ pc = "thrown") =>
        /\ pc = "thrown"
        /\ thrown # "none"
        /\ pollers = <<>>
        /\ subState = "none"
        /\ emitted = <<>>
        /\ unhandled = {}
        /\ delivered = 0 /\ errors = 0

C10_Witness ==
    /\ pc = "thrown"
    /\ thrown = "TransactionReceiptMissingBlockNumberError"
    /\ supportsSubscriptions

\* Some observer of the watch is still running: the subscription is being set
\* up or is active, or an interval timer has not been cancelled.
Active ==
    \/ subState \in {"scheduled", "subscribing", "active"}
    \/ \E p \in DOMAIN pollers : pollers[p].timer = "active"

\* The watch has made its terminal transition at the threshold.
Terminated ==
    \/ PollingThresholdReached
    \/ (SubscriptionThresholdReached /\ subState = "unsubscribed")

\* C11: a watch terminates exactly once: the subscription handle is released
\* (unsubscribe called) at most once, and after the terminal transition at the
\* threshold no observer of the watch is active any more.
C11_TerminatesExactlyOnce ==
    [][/\ dataUnsub' + errUnsub' <= 1
       /\ Terminated => ~Active']_vars

\* C12: a rejected block query does not stop the watch: the step that handles
\* the rejection leaves every counter and timer as it was, emits nothing, and
\* the watch keeps running, so that later ticks can retry.
C12_RejectedQueryIsRetried ==
    [][(\E p \in PollerIds, h \in RequestHeights : FetchReject(p, h)) =>
         /\ emitted' = emitted
         /\ Len(pollers') = Len(pollers)
         /\ \A q \in DOMAIN pollers :
              /\ pollers'[q].confirmationNumber = pollers[q].confirmationNumber
              /\ pollers'[q].timer = pollers[q].timer
         /\ Running']_vars

\* C13: a validated watch selects one observer from the capability probe: the
\* subscription observer exactly when subscriptions are supported, otherwise
\* one polling observer; a polling observer next to a subscription exists only
\* after the subscription's error handler has unsubscribed.
C13_ObserverSelectedOnce ==
    pc \in {"returned", "exited"} =>
        /\ supportsSubscriptions =>
               /\ subState # "none"
               /\ Len(pollers) <= errors
               /\ pollers # <<>> => subState = "unsubscribed"
        /\ ~supportsSubscriptions =>
               /\ subState = "none"
               /\ Len(pollers) = 1
               /\ delivered = 0 /\ errors = 0
               /\ dataUnsub = 0 /\ errUnsub = 0

C13_Witness ==
    /\ pc = "returned"
    /\ supportsSubscriptions
    /\ subState = "active"
    /\ pollers = <<>>
    /\ delivered >= 1
    /\ emitted # <<>>

\* C14: every emitted confirmation event carries a confirmationNumber >= 1.
C14_ConfirmationNumberAtLeastOne ==
    \A i \in 1..Len(emitted) : emitted[i].confirmationNumber >= 1

\* C15: a polling event with confirmationNumber n carries the original receipt
\* and the hash of the block at height blockNumber + n - 1.
C15_PollingEventCarriesBlockHash ==
    \A i \in 1..Len(emitted) :
        emitted[i].via = "polling" =>
            /\ emitted[i].receipt = transactionReceipt
            /\ emitted[i].latestBlockHash
                  = BlockHash(ReceiptBlock + emitted[i].confirmationNumber - 1)

\* C16: overlapping ticks of one polling watch do not race on the counter:
\* the counter is incremented at most once per block height (no two events of
\* the watch's poller count the same block) and, while its timer runs, the
\* counter is never above the threshold.
C16_EachBlockCountedOnce ==
    ~supportsSubscriptions =>
        /\ \A i, j \in 1..Len(emitted) :
              i < j => emitted[i].latestBlockHash # emitted[j].latestBlockHash
        /\ \A p \in DOMAIN pollers :
              pollers[p].timer = "active"
                 => pollers[p].confirmationNumber <= transactionConfirmationBlocks

\* C17: a Polling Observer is started on the subscription path only by the
\* step in which an error handler's unsubscribe is acknowledged, and from then
\* on the subscription is unsubscribed and stays so: subscription and fallback
\* timer are never active together and nothing subscribes again.
C17_UnsubscribeThenPoll ==
    [][/\ (supportsSubscriptions /\ Len(pollers') > Len(pollers))
            => /\ errUnsub >= 1
               /\ pendingErr' = pendingErr - 1
               /\ subState' = "unsubscribed"
       /\ (supportsSubscriptions /\ pollers # <<>>)
            => (subState = "unsubscribed" /\ subState' = "unsubscribed")]_vars

C17_Witness ==
    /\ supportsSubscriptions
    /\ pollers # <<>>
    /\ pollers[1].timer = "active"
    /\ subState = "unsubscribed"
    /\ EmittedBy("polling", 2)
    /\ EmittedBy("subscription", 2)

\* C18: once a header at or above the threshold has been handled the watch is
\* confirmed: no error handled from then on leads to a Polling Observer (the
\* number of pollers started or about to be started no longer grows).
C18_ConfirmedIsTerminal ==
    [][SubscriptionThresholdReached
          => Len(pollers') + pendingErr' <= Len(pollers) + pendingErr]_vars

\* C19: a header without a height is ignored by the data handler: nothing is
\* emitted, no unsubscribe is issued and the subscription stays active.
C19_HeaderWithoutHeightIgnored ==
    [][(delivered' # delivered /\ ~lastHeader'.hasNumber) =>
         /\ emitted' = emitted
         /\ dataUnsub' = dataUnsub /\ pendingData' = pendingData
         /\ errUnsub' = errUnsub /\ pendingErr' = pendingErr
         /\ pollers' = pollers
         /\ subState = "active" /\ subState' = "active"]_vars

C19_Witness ==
    /\ delivered >= 1
    /\ ~lastHeader.hasNumber
    /\ subState = "active"
    /\ dataUnsub = 0
    /\ emitted = <<>>

\* C20: a watch has at most one polling timer over its lifetime, and each
\* confirmation number is emitted by polling at most once.
C20_AtMostOnePoller ==
    /\ Len(pollers) <= 1
    /\ \A i, j \in 1..Len(emitted) :
         (i < j /\ emitted[i].via = "polling" /\ emitted[j].via = "polling")
            => emitted[i].confirmationNumber # emitted[j].confirmationNumber
====
